---- MODULE Spec2Model ----
(***************************************************************************)
(* GatewayZ Desktop (src-tauri): the deep-link router, the window, tray    *)
(* and shortcut handlers of lib.rs, and the update and auth-token commands *)
(* of commands.rs.                                                         *)
(*                                                                         *)
(* Strings are sequences of one-character strings, so that URL parsing,    *)
(* percent-encoding, form-decoding and JSON parsing are computed and not   *)
(* assumed.  The URL parser follows url::Url::parse for schemes that are   *)
(* not special (gatewayz is not http/https/ws/wss/ftp/file), over the      *)
(* characters the payloads below are written in: no '@', no backslash, no  *)
(* '.', no control characters, no IPv6 literal hosts.                      *)
(***************************************************************************)
EXTENDS Integers, Sequences, FiniteSets, TLC

\* ------------------------------------------------------------------------
\* Characters
\* ------------------------------------------------------------------------
Alpha ==
    {"a","b","c","d","e","f","g","h","i","j","k","l","m",
     "n","o","p","q","r","s","t","u","v","w","x","y","z"}

Digit == {"0","1","2","4"}

\* parse_scheme: characters accepted after the first one
SchemeChars == Alpha \cup Digit \cup {"+", "-"}

\* Host::parse_opaque: is_invalid_host_char, restricted to the alphabet
InvalidHostChars == {" ", "#", "/", ":", "?", "[", "]"}

\* serde_json whitespace, restricted to the alphabet
JsonWhitespace == {" "}

\* ------------------------------------------------------------------------
\* Sequence helpers
\* ------------------------------------------------------------------------
\* index of the first element of s that is in C, 0 when there is none
FirstIn(s, C) ==
    IF \E i \in 1..Len(s) : s[i] \in C
    THEN CHOOSE i \in 1..Len(s) : s[i] \in C /\ \A j \in 1..(i-1) : s[j] \notin C
    ELSE 0

\* index of the first element of s that is NOT in C, 0 when there is none
FirstNotIn(s, C) ==
    IF \E i \in 1..Len(s) : s[i] \notin C
    THEN CHOOSE i \in 1..Len(s) : s[i] \notin C /\ \A j \in 1..(i-1) : s[j] \in C
    ELSE 0

\* index of the last element of s that is NOT in C, 0 when there is none
LastNotIn(s, C) ==
    IF \E i \in 1..Len(s) : s[i] \notin C
    THEN CHOOSE i \in 1..Len(s) : s[i] \notin C /\ \A j \in (i+1)..Len(s) : s[j] \in C
    ELSE 0

Drop(s, n) == SubSeq(s, n + 1, Len(s))

Take(s, n) == SubSeq(s, 1, n)

StartsWith(s, p) == Len(s) >= Len(p) /\ Take(s, Len(p)) = p

\* str::trim_matches: strip the characters of C from both ends
TrimMatches(s, C) ==
    IF FirstNotIn(s, C) = 0 THEN << >>
    ELSE SubSeq(s, FirstNotIn(s, C), LastNotIn(s, C))

\* ------------------------------------------------------------------------
\* Percent-encoding (percent_encoding crate, as used by the url crate)
\* ------------------------------------------------------------------------
\* the bytes of the alphabet that some encode set escapes, with their hex
PercentHex(c) ==
    CASE c = " "  -> <<"%", "2", "0">>
      [] c = "\"" -> <<"%", "2", "2">>
      [] OTHER    -> <<c>>

\* utf8_percent_encode(s, set): every character of the set becomes %XX
RECURSIVE PercentEncode(_, _)
PercentEncode(s, set) ==
    IF s = << >> THEN << >>
    ELSE (IF Head(s) \in set THEN PercentHex(Head(s)) ELSE <<Head(s)>>)
         \o PercentEncode(Tail(s), set)

\* PATH encode set, restricted to the alphabet: space " # ? (and < > ` { })
PathEncodeSet == {" ", "\"", "#", "?"}

\* QUERY encode set, restricted to the alphabet: space " # (and < >)
QueryEncodeSet == {" ", "\"", "#"}

\* percent_decode: %20 and %22 are the escapes whose byte is in the alphabet;
\* a '%' not followed by two hex digits is kept as it is
RECURSIVE PercentDecode(_)
PercentDecode(s) ==
    IF s = << >> THEN << >>
    ELSE IF StartsWith(s, <<"%", "2", "0">>) THEN <<" ">> \o PercentDecode(Drop(s, 3))
    ELSE IF StartsWith(s, <<"%", "2", "2">>) THEN <<"\"">> \o PercentDecode(Drop(s, 3))
    ELSE <<Head(s)>> \o PercentDecode(Tail(s))

\* form_urlencoded::decode: '+' becomes a space, then percent_decode
RECURSIVE ReplacePlus(_)
ReplacePlus(s) ==
    IF s = << >> THEN << >>
    ELSE <<(IF Head(s) = "+" THEN " " ELSE Head(s))>> \o ReplacePlus(Tail(s))

FormDecode(s) == PercentDecode(ReplacePlus(s))

\* ------------------------------------------------------------------------
\* url::Url::parse, url.path(), url.query(), url.query_pairs()
\* ------------------------------------------------------------------------
NoUrl == [ok |-> FALSE, path |-> << >>, hasQuery |-> FALSE, query |-> << >>]

DigitVal(c) ==
    CASE c = "0" -> 0 [] c = "1" -> 1 [] c = "2" -> 2 [] c = "4" -> 4 [] OTHER -> 0

\* parse_port accumulates the decimal value of the port
RECURSIVE PortValue(_, _)
PortValue(s, acc) ==
    IF s = << >> THEN acc
    ELSE PortValue(Tail(s), IF acc > 65535 THEN acc ELSE acc * 10 + DigitVal(Head(s)))

\* host and port of an authority: the host ends at the first ':', an opaque
\* host has no invalid host character, a port is decimal and fits 16 bits
AuthorityOk(authority) ==
    LET colonAt == FirstIn(authority, {":"})
        host == IF colonAt = 0 THEN authority ELSE Take(authority, colonAt - 1)
        port == IF colonAt = 0 THEN << >> ELSE Drop(authority, colonAt)
    IN  /\ \A i \in 1..Len(host) : host[i] \notin InvalidHostChars
        /\ \A i \in 1..Len(port) : port[i] \in Digit
        /\ PortValue(port, 0) <= 65535

\* Url::parse(input) for a scheme that is not special
ParseUrl(input) ==
    LET t == TrimMatches(input, {" "})
        colon == FirstNotIn(t, SchemeChars)
    IN  IF t = << >> \/ colon = 0 THEN NoUrl
        ELSE IF t[1] \notin Alpha \/ t[colon] # ":" THEN NoUrl
        ELSE
          LET rest == Drop(t, colon)
              hashAt == FirstIn(rest, {"#"})
              beforeFragment == IF hashAt = 0 THEN rest ELSE Take(rest, hashAt - 1)
              qAt == FirstIn(beforeFragment, {"?"})
              body == IF qAt = 0 THEN beforeFragment ELSE Take(beforeFragment, qAt - 1)
              rawQuery == IF qAt = 0 THEN << >> ELSE Drop(beforeFragment, qAt)
              query == PercentEncode(rawQuery, QueryEncodeSet)
          IN  IF StartsWith(body, <<"/", "/">>)
              THEN \* after_double_slash: authority, then the path
                LET afterSlashes == Drop(body, 2)
                    slashAt == FirstIn(afterSlashes, {"/"})
                    authority == IF slashAt = 0 THEN afterSlashes
                                 ELSE Take(afterSlashes, slashAt - 1)
                    rawPath == IF slashAt = 0 THEN << >>
                               ELSE Drop(afterSlashes, slashAt - 1)
                IN  IF AuthorityOk(authority)
                    THEN [ok |-> TRUE, path |-> PercentEncode(rawPath, PathEncodeSet),
                          hasQuery |-> qAt # 0, query |-> query]
                    ELSE NoUrl
              ELSE IF StartsWith(body, <<"/">>)
              THEN \* no authority, path starting with '/'
                [ok |-> TRUE, path |-> PercentEncode(body, PathEncodeSet),
                 hasQuery |-> qAt # 0, query |-> query]
              ELSE \* parse_cannot_be_a_base_path: opaque path, kept as written
                [ok |-> TRUE, path |-> body, hasQuery |-> qAt # 0, query |-> query]

\* form_urlencoded::parse(query): the (name, value) pairs in order; empty
\* pieces between '&' are skipped, a piece without '=' has an empty value
RECURSIVE QueryPairs(_)
QueryPairs(q) ==
    IF q = << >> THEN << >>
    ELSE
      LET amp == FirstIn(q, {"&"})
          piece == IF amp = 0 THEN q ELSE Take(q, amp - 1)
          rest == IF amp = 0 THEN << >> ELSE Drop(q, amp)
          eq == FirstIn(piece, {"="})
          name == IF eq = 0 THEN piece ELSE Take(piece, eq - 1)
          value == IF eq = 0 THEN << >> ELSE Drop(piece, eq)
      IN  IF piece = << >> THEN QueryPairs(rest)
          ELSE <<[k |-> FormDecode(name), v |-> FormDecode(value)]>> \o QueryPairs(rest)

\* ------------------------------------------------------------------------
\* serde_json::from_str::<Vec<String>>
\* ------------------------------------------------------------------------
NoVec == [ok |-> FALSE, items |-> << >>]

SkipWhitespace(s) ==
    IF FirstNotIn(s, JsonWhitespace) = 0 THEN << >>
    ELSE Drop(s, FirstNotIn(s, JsonWhitespace) - 1)

\* after the closing ']': only whitespace may follow
JsonEnd(rest, items) ==
    IF SkipWhitespace(rest) = << >> THEN [ok |-> TRUE, items |-> items] ELSE NoVec

\* s starts at an element: a string, then ',' and another element, or ']'
RECURSIVE JsonElements(_, _)
JsonElements(s, acc) ==
    IF s = << >> THEN NoVec
    ELSE IF Head(s) # "\"" THEN NoVec
    ELSE
      LET close == FirstIn(Tail(s), {"\""})
          str == Take(Tail(s), close - 1)
          after == SkipWhitespace(Drop(Tail(s), close))
      IN  IF close = 0 \/ after = << >> THEN NoVec
          ELSE IF Head(after) = "," THEN JsonElements(SkipWhitespace(Tail(after)), Append(acc, str))
          ELSE IF Head(after) = "]" THEN JsonEnd(Tail(after), Append(acc, str))
          ELSE NoVec

JsonVecString(s) ==
    LET a == SkipWhitespace(s)
    IN  IF a = << >> THEN NoVec
        ELSE IF Head(a) # "[" THEN NoVec
        ELSE LET b == SkipWhitespace(Tail(a))
             IN  IF b # << >> /\ Head(b) = "]" THEN JsonEnd(Tail(b), << >>)
                 ELSE JsonElements(b, << >>)

\* ------------------------------------------------------------------------
\* State
\* ------------------------------------------------------------------------
VARIABLES
    queue,          \* payloads delivered to the listener and not yet handled
    arrivals,       \* every payload that arrived, in arrival order
    handled,        \* one record per run of the listener, in the order run
    trace,          \* the calls made by the runs, each tagged with its run
    windowExists,   \* a webview window labelled "main" exists
    visible,        \* the main window is shown
    focused,        \* the main window has the focus
    minimized,      \* the main window is minimized
    appState,       \* "running", "exited" (app.exit) or "restarted" (app.restart)
    last,           \* the window, tray or shortcut event handled by the last step
    cmdLog,         \* the IPC commands invoked, with what they returned
    mem,            \* auth.json as the store plugin holds it in memory
    disk            \* auth.json as last saved

vars == <<queue, arrivals, handled, trace, windowExists, visible, focused,
          minimized, appState, last, cmdLog, mem, disk>>

\* the state of the IPC commands
cmdVars == <<cmdLog, mem, disk>>

\* the state of the deep-link router
routerVars == <<queue, arrivals, handled, trace>>

\* the last step handled no window, tray or shortcut event; in general: the
\* event, the item or key, the window before it, what the state queries
\* read, the calls made, whether every query and window call succeeded, and
\* the count of successive shortcut presses that found the window
NoEvent ==
    [ev |-> "none", id |-> "",
     pre |-> [exists |-> FALSE, visible |-> FALSE, focused |-> FALSE, minimized |-> FALSE],
     read |-> [visible |-> FALSE, focused |-> FALSE, minimized |-> FALSE],
     calls |-> << >>, ok |-> TRUE, streak |-> 0]

\* the value of a key that auth.json does not hold
None == <<"None">>

\* ------------------------------------------------------------------------
\* String literals of lib.rs
\* ------------------------------------------------------------------------
ChatPath == <<"/", "c", "h", "a", "t">>

AuthCallbackPath == <<"/", "a", "u", "t", "h", "/", "c", "a", "l", "l", "b", "a", "c", "k">>

IdKey == <<"i", "d">>

ChatIdPrefix == <<"/", "c", "h", "a", "t", "?", "i", "d", "=">>

\* the unit payload () of emit("new-chat", ()): not a string
Unit == <<"()">>

\* ------------------------------------------------------------------------
\* Effects: the calls a handler makes, in program order
\* ------------------------------------------------------------------------
LogInfo(msg) == [op |-> "log::info", name |-> msg, arg |-> << >>]

LogWarn(msg) == [op |-> "log::warn", name |-> msg, arg |-> << >>]

LogError(msg) == [op |-> "log::error", name |-> msg, arg |-> << >>]

Show == [op |-> "show", name |-> "main", arg |-> << >>]

SetFocus == [op |-> "set_focus", name |-> "main", arg |-> << >>]

Emit(event, arg) == [op |-> "emit", name |-> event, arg |-> arg]

\* ------------------------------------------------------------------------
\* handle_deep_link
\* ------------------------------------------------------------------------
\* url.query_pairs().find(|(k, _)| k == "id"): the pairs named id, in order
IdPairs(url) == SelectSeq(QueryPairs(url.query), LAMBDA kv : kv.k = IdKey)

\* variant: the last id pair instead of the first
ChatArmLastId(url) ==
    IF IdPairs(url) # << >>
    THEN <<Emit("navigate", ChatIdPrefix \o IdPairs(url)[Len(IdPairs(url))].v)>>
    ELSE <<Emit("new-chat", Unit)>>

\* "/chat" arm: a specific chat when an id is given, a new chat otherwise
ChatArm(url) ==
    IF IdPairs(url) # << >>
    THEN <<Emit("navigate", ChatIdPrefix \o IdPairs(url)[1].v)>>
    ELSE <<Emit("new-chat", Unit)>>

\* variant: the form-decoded query instead of the raw one
AuthCallbackArmDecoded(url) ==
    <<LogInfo("Auth callback received, emitting auth-callback event"),
      Emit("auth-callback", IF url.hasQuery THEN FormDecode(url.query) ELSE << >>)>>

\* "/auth/callback" arm: url.query().unwrap_or("")
AuthCallbackArm(url) ==
    <<LogInfo("Auth callback received, emitting auth-callback event"),
      Emit("auth-callback", IF url.hasQuery THEN url.query ELSE << >>)>>

\* variant: path and query
OtherArmWithQuery(url) ==
    <<Emit("navigate", IF url.hasQuery THEN url.path \o <<"?">> \o url.query ELSE url.path)>>

\* "_" arm: navigate to the path
OtherArm(url) == <<Emit("navigate", url.path)>>

\* match url.path()
RouteByPath(url) ==
    IF url.path = ChatPath THEN ChatArm(url)
    ELSE IF url.path = AuthCallbackPath THEN AuthCallbackArm(url)
    ELSE OtherArm(url)

\* variant: the event is emitted before the window is shown and focused
HandleDeepLinkEmitFirst(url, exists) ==
    <<LogInfo("Handling deep link")>> \o
    (IF exists
     THEN RouteByPath(url) \o <<Show, SetFocus>>
     ELSE <<LogError("Failed to get main window for deep link handling")>>)

\* variant: the event is emitted through the app handle, window or not
HandleDeepLinkNoWindowCheck(url, exists) ==
    <<LogInfo("Handling deep link")>> \o
    (IF exists
     THEN <<Show, SetFocus>> \o RouteByPath(url)
     ELSE <<LogError("Failed to get main window for deep link handling")>> \o RouteByPath(url))

\* the calls of handle_deep_link(app, url); exists: get_webview_window("main")
\* returned Some
HandleDeepLink(url, exists) ==
    <<LogInfo("Handling deep link")>> \o
    (IF exists
     THEN <<Show, SetFocus>> \o RouteByPath(url)
     ELSE <<LogError("Failed to get main window for deep link handling")>>)

\* ------------------------------------------------------------------------
\* the "deep-link://new-url" listener of setup_deep_link_handler
\* ------------------------------------------------------------------------
\* variant: the payload is only read as a JSON array
ListenerUrlArrayOnly(payload) ==
    IF JsonVecString(payload).ok
    THEN (IF JsonVecString(payload).items # << >>
          THEN ParseUrl(JsonVecString(payload).items[1])
          ELSE NoUrl)
    ELSE NoUrl

\* the first element of a sequence of strings that parses as a URL
RECURSIVE FirstParseable(_)
FirstParseable(items) ==
    IF items = << >> THEN NoUrl
    ELSE IF ParseUrl(Head(items)).ok THEN ParseUrl(Head(items))
    ELSE FirstParseable(Tail(items))

\* variant: the first element that parses instead of the first element
ListenerUrlAnyElement(payload) ==
    IF ParseUrl(payload).ok THEN ParseUrl(payload)
    ELSE IF JsonVecString(payload).ok THEN FirstParseable(JsonVecString(payload).items)
    ELSE NoUrl

\* the URL the listener hands to handle_deep_link, NoUrl when it hands none:
\* the payload itself, else the first element of the payload read as a JSON
\* array of strings
ListenerUrl(payload) ==
    IF ParseUrl(payload).ok THEN ParseUrl(payload)
    ELSE IF JsonVecString(payload).ok
    THEN (IF JsonVecString(payload).items # << >>
          THEN ParseUrl(JsonVecString(payload).items[1])
          ELSE NoUrl)
    ELSE NoUrl

\* variant: a payload that does not parse is dropped without a warning
ListenerQuiet(payload, exists) ==
    <<LogInfo("Received deep link")>> \o
    (IF ListenerUrl(payload).ok
     THEN HandleDeepLink(ListenerUrl(payload), exists)
     ELSE << >>)

\* variant: a payload already handled before is not routed again
ListenerDebounced(payload, exists) ==
    <<LogInfo("Received deep link")>> \o
    (IF \E n \in 1..Len(handled) : handled[n].payload = payload
     THEN << >>
     ELSE IF ListenerUrl(payload).ok
     THEN HandleDeepLink(ListenerUrl(payload), exists)
     ELSE <<LogWarn("Failed to parse deep link payload")>>)

\* the calls of one run of the listener closure
Listener(payload, exists) ==
    <<LogInfo("Received deep link")>> \o
    (IF ListenerUrl(payload).ok
     THEN HandleDeepLink(ListenerUrl(payload), exists)
     ELSE <<LogWarn("Failed to parse deep link payload")>>)

\* ------------------------------------------------------------------------
\* Bounds and inputs
\* ------------------------------------------------------------------------
\* deep links that arrive in one behaviour
MaxArrivals == 3

UrlBase == <<"g", "a", "t", "e", "w", "a", "y", "z", ":", "/", "/", "a", "p", "p">>

\* paths: the two routed ones, near misses, the root, the empty path
Paths ==
    { <<>>,
      <<"/">>,
      <<"/", "c", "h", "a", "t">>,
      <<"/", "c", "h", "a", "t", "/">>,
      <<"/", "c", "h", "a", "t", "s">>,
      <<"/", "a", "u", "t", "h">>,
      <<"/", "a", "u", "t", "h", "/", "c", "a", "l", "l", "b", "a", "c", "k">>,
      <<"/", "a", "u", "t", "h", "/", "c", "a", "l", "l", "b", "a", "c", "k", "/">>,
      <<"/", "s", "e", "t", "t", "i", "n", "g", "s">>,
      <<"/", "a", " ", "b">> }

\* no query, empty query, id first/absent/repeated/encoded, a fragment
QuerySuffixes ==
    { <<>>,
      <<"?">>,
      <<"?", "i", "d", "=", "4", "2">>,
      <<"?", "i", "d">>,
      <<"?", "x", "=", "1", "&", "i", "d", "=", "4", "2", "&", "i", "d", "=", "4">>,
      <<"?", "i", "d", "=", "a", "+", "b">>,
      <<"?", "i", "d", "=", "a", " ", "b">>,
      <<"?", "i", "d", "x", "=", "4">>,
      <<"?", "c", "o", "d", "e", "=", "a", "b", "c", "&", "s", "t", "a", "t", "e", "=", "x", "y", "z">>,
      <<"?", "i", "d", "=", "4", "#", "x">>,
      <<"#", "i", "d", "=", "4">> }

HierUrls == {UrlBase \o p \o q : p \in Paths, q \in QuerySuffixes}

\* opaque path, no authority, empty authority, surrounding spaces, a port
OtherUrls ==
    { <<"g", "a", "t", "e", "w", "a", "y", "z", ":", "c", "h", "a", "t">>,
      <<"g", "a", "t", "e", "w", "a", "y", "z", ":", "/", "c", "h", "a", "t">>,
      <<"g", "a", "t", "e", "w", "a", "y", "z", ":", "/", "/">>,
      <<" ", "g", "a", "t", "e", "w", "a", "y", "z", ":", "/", "/", "a", "p", "p", "/", "c", "h", "a", "t", " ">>,
      <<"g", "a", "t", "e", "w", "a", "y", "z", ":", "/", "/", "a", "p", "p", ":", "4", "2", "/", "c", "h", "a", "t", "?", "i", "d", "=", "4">>,
      <<"x", "-", "y", "+", "z", ":", "/", "a", "u", "t", "h", "/", "c", "a", "l", "l", "b", "a", "c", "k", "?">> }

\* payloads that are neither a URL nor a JSON array
NotUrls ==
    { <<>>,
      <<" ">>,
      <<"n", "o", "t", " ", "a", " ", "u", "r", "l">>,
      <<"c", "h", "a", "t">>,
      <<"/", "c", "h", "a", "t", "?", "i", "d", "=", "4">>,
      <<"g", "a", "t", "e", "w", "a", "y", "z">>,
      <<"g", "a", "t", "e", "w", "a", "y", "z", "/", "/", "a", "p", "p", "/", "c", "h", "a", "t">>,
      <<"g", "a", "t", "e", "w", "a", "y", "z", ":", "/", "/", "a", " ", "b", "/", "c", "h", "a", "t">>,
      <<"g", "a", "t", "e", "w", "a", "y", "z", ":", "/", "/", "a", "p", "p", ":", "x", "/", "c", "h", "a", "t">>,
      <<"g", "a", "t", "e", "w", "a", "y", "z", ":", "/", "/", "a", "p", "p", ":", "4", "4", "4", "4", "4", "4", "/", "c", "h", "a", "t">>,
      <<"4", "g", ":", "/", "/", "a", "p", "p", "/", "c", "h", "a", "t">>,
      <<"\"", "g", "a", "t", "e", "w", "a", "y", "z", ":", "/", "/", "a", "p", "p", "/", "c", "h", "a", "t", "\"">> }

\* strings put in JSON arrays
ArrayItems ==
    { <<"g", "a", "t", "e", "w", "a", "y", "z", ":", "/", "/", "a", "p", "p", "/", "c", "h", "a", "t", "?", "i", "d", "=", "4", "2">>,
      <<"g", "a", "t", "e", "w", "a", "y", "z", ":", "/", "/", "a", "p", "p", "/", "a", "u", "t", "h", "/", "c", "a", "l", "l", "b", "a", "c", "k", "?", "c", "o", "d", "e", "=", "a", "b", "c", "&", "s", "t", "a", "t", "e", "=", "x", "y", "z">>,
      <<"g", "a", "t", "e", "w", "a", "y", "z", ":", "/", "/", "a", "p", "p", "/", "s", "e", "t", "t", "i", "n", "g", "s">>,
      <<"g", "a", "t", "e", "w", "a", "y", "z", ":", "/", "/", "a", "p", "p", "/", "c", "h", "a", "t">>,
      <<"n", "o", "t", " ", "a", " ", "u", "r", "l">>,
      <<>> }

Quoted(str) == <<"\"">> \o str \o <<"\"">>

\* a JSON array of one or two strings, as serde_json would print it
JsonArray1(a) == <<"[">> \o Quoted(a) \o <<"]">>

JsonArray2(a, b) == <<"[">> \o Quoted(a) \o <<",">> \o Quoted(b) \o <<"]">>

WellFormedArrays ==
    {JsonArray1(a) : a \in ArrayItems} \cup
    {JsonArray2(a, b) : a \in ArrayItems, b \in ArrayItems} \cup
    {<<" ", "[", " ">> \o Quoted(a) \o <<" ", "]", " ">> : a \in ArrayItems} \cup
    {<<"[", "]">>, <<" ", "[", " ", "]">>}

\* not a Vec<String>: truncated, trailing comma, a number, trailing characters
MalformedArrays ==
    {<<"[">>, <<"[", "1", "]">>, <<"[", "]", "]">>} \cup
    {<<"[">> \o Quoted(a) : a \in ArrayItems} \cup
    {<<"[">> \o Quoted(a) \o <<",", "]">> : a \in ArrayItems} \cup
    {<<"[">> \o Quoted(a) \o <<",", "1", "]">> : a \in ArrayItems} \cup
    {JsonArray1(a) \o <<" ", "x">> : a \in ArrayItems}

\* the payloads a single routing is checked on
RoutePayloads == HierUrls \cup OtherUrls \cup NotUrls \cup WellFormedArrays \cup MalformedArrays

\* the payloads of the deep links that arrive one after another
SessionPayloads ==
    { <<"g", "a", "t", "e", "w", "a", "y", "z", ":", "/", "/", "a", "p", "p", "/", "c", "h", "a", "t", "?", "i", "d", "=", "4", "2">>,
      <<"g", "a", "t", "e", "w", "a", "y", "z", ":", "/", "/", "a", "p", "p", "/", "a", "u", "t", "h", "/", "c", "a", "l", "l", "b", "a", "c", "k", "?", "c", "o", "d", "e", "=", "a", "b", "c", "&", "s", "t", "a", "t", "e", "=", "x", "y", "z">>,
      <<"g", "a", "t", "e", "w", "a", "y", "z", ":", "/", "/", "a", "p", "p", "/", "s", "e", "t", "t", "i", "n", "g", "s">>,
      <<"n", "o", "t", " ", "a", " ", "u", "r", "l">>,
      JsonArray2(<<"g", "a", "t", "e", "w", "a", "y", "z", ":", "/", "/", "a", "p", "p", "/", "c", "h", "a", "t">>, <<"g", "a", "t", "e", "w", "a", "y", "z", ":", "/", "/", "a", "p", "p", "/", "s", "e", "t", "t", "i", "n", "g", "s">>) }

\* ------------------------------------------------------------------------
\* Start-up
\* ------------------------------------------------------------------------
\* the window states at start-up: not created yet, or created, shown or
\* hidden, and focused only when shown
WindowStates ==
    {[exists |-> e, visible |-> v, focused |-> f] :
        e \in BOOLEAN, v \in BOOLEAN, f \in BOOLEAN} 

StartWindowStates == {w \in WindowStates : (w.focused => w.visible) /\ (w.visible => w.exists)}

InitWindow ==
    \E w \in StartWindowStates :
        /\ windowExists = w.exists
        /\ visible = w.visible
        /\ focused = w.focused

\* the application runs, no event was handled, no command was invoked, and
\* auth.json holds no token
InitRest ==
    /\ minimized = FALSE
    /\ appState = "running"
    /\ last = NoEvent
    /\ cmdLog = << >>
    /\ mem = None
    /\ disk = None

Init ==
    /\ queue = << >>
    /\ arrivals = << >>
    /\ handled = << >>
    /\ trace = << >>
    /\ InitWindow
    /\ InitRest

\* one deep link from RoutePayloads is waiting for the listener
InitRoute ==
    /\ \E p \in RoutePayloads : queue = <<p>> /\ arrivals = <<p>>
    /\ handled = << >>
    /\ trace = << >>
    /\ InitWindow
    /\ InitRest

\* ------------------------------------------------------------------------
\* Actions
\* ------------------------------------------------------------------------
\* the host emits "deep-link://new-url" with payload p
ArriveFrom(payloads, max) ==
    /\ Len(arrivals) < max
    /\ \E p \in payloads :
        /\ queue' = Append(queue, p)
        /\ arrivals' = Append(arrivals, p)
    /\ UNCHANGED <<handled, trace, windowExists, visible, focused>>
    /\ UNCHANGED <<minimized, appState, last, cmdVars>>

Arrive ==
    /\ appState = "running"
    /\ ArriveFrom(SessionPayloads, MaxArrivals)

\* the host's event loop hands the listener the oldest pending event
TakeEventNewest(q) == [event |-> q[Len(q)], rest |-> SubSeq(q, 1, Len(q) - 1)]

TakeEvent(q) == [event |-> Head(q), rest |-> Tail(q)]

Tagged(run, effects) ==
    [i \in 1..Len(effects) |->
        [inv |-> run, op |-> effects[i].op, name |-> effects[i].name, arg |-> effects[i].arg]]

\* some call of calls is a call of op
Called(calls, op) == \E i \in 1..Len(calls) : calls[i].op = op

\* the window after one run: show and set_focus take effect when they succeed
WindowAfterRun(calls) ==
    \E showOk \in BOOLEAN, focusOk \in BOOLEAN :
        /\ visible' = (visible \/ (Called(calls, "show") /\ showOk))
        /\ focused' = (focused \/ (Called(calls, "set_focus") /\ focusOk))

\* one run of the listener closure, to completion; window.show() and
\* window.set_focus() may fail, their results are discarded (let _ =)
Dispatch ==
    /\ appState = "running"
    /\ queue # << >>
    /\ queue' = TakeEvent(queue).rest
    /\ handled' = Append(handled, [payload |-> TakeEvent(queue).event,
                                   window |-> windowExists])
    /\ trace' = trace \o Tagged(Len(handled) + 1,
                                Listener(TakeEvent(queue).event, windowExists))
    /\ WindowAfterRun(Listener(TakeEvent(queue).event, windowExists))
    /\ UNCHANGED <<arrivals, windowExists>>
    /\ last' = NoEvent
    /\ UNCHANGED <<minimized, appState, cmdVars>>

\* the host creates the main window
WindowCreated ==
    /\ appState = "running"
    /\ ~windowExists
    /\ windowExists' = TRUE
    /\ \E w \in StartWindowStates :
        /\ w.exists
        /\ visible' = w.visible
        /\ focused' = w.focused
    /\ UNCHANGED <<queue, arrivals, handled, trace>>
    /\ last' = NoEvent
    /\ UNCHANGED <<minimized, appState, cmdVars>>

Next == Arrive \/ Dispatch \/ WindowCreated

Spec == Init /\ [][Next]_vars

NextRoute == Dispatch \/ WindowCreated

SpecRoute == InitRoute /\ [][NextRoute]_vars

\* ------------------------------------------------------------------------
\* Reading the history
\* ------------------------------------------------------------------------
Runs == 1..Len(handled)

\* the calls of run n, in order
CallsOf(n) == SelectSeq(trace, LAMBDA e : e.inv = n)

OpsOf(n, op) == SelectSeq(trace, LAMBDA e : e.inv = n /\ e.op = op)

EmitsOf(n) == OpsOf(n, "emit")

\* position in the trace of the only call op of run n
PositionOf(n, op) == CHOOSE i \in 1..Len(trace) : trace[i].inv = n /\ trace[i].op = op

\* the payload of run n is itself a URL
IsUrlPayload(n) == ParseUrl(handled[n].payload).ok

\* the payload of run n is not a URL and is a JSON array of strings
IsArrayPayload(n) == ~IsUrlPayload(n) /\ JsonVecString(handled[n].payload).ok

ArrayOf(n) == JsonVecString(handled[n].payload).items

\* a URL was parsed from the payload of run n, directly or as first element
UrlParsed(n) ==
    \/ IsUrlPayload(n)
    \/ IsArrayPayload(n) /\ ArrayOf(n) # << >> /\ ParseUrl(ArrayOf(n)[1]).ok

\* that URL
UrlOf(n) == IF IsUrlPayload(n) THEN ParseUrl(handled[n].payload) ELSE ParseUrl(ArrayOf(n)[1])

\* index of the first query pair named id, 0 when there is none
FirstIdIndex(pairs) ==
    IF \E i \in 1..Len(pairs) : pairs[i].k = IdKey
    THEN CHOOSE i \in 1..Len(pairs) :
            pairs[i].k = IdKey /\ \A j \in 1..(i-1) : pairs[j].k # IdKey
    ELSE 0

\* run n emitted exactly the event name with argument arg
EmittedOnly(n, name, arg) ==
    /\ Len(EmitsOf(n)) = 1
    /\ EmitsOf(n)[1].name = name
    /\ EmitsOf(n)[1].arg = arg

\* the intent the path and query of url call for
BranchIntent(n, url) ==
    IF url.path = ChatPath
    THEN \/ EmittedOnly(n, "new-chat", Unit)
         \/ Len(EmitsOf(n)) = 1 /\ EmitsOf(n)[1].name = "navigate"
            /\ StartsWith(EmitsOf(n)[1].arg, ChatIdPrefix)
    ELSE IF url.path = AuthCallbackPath
    THEN Len(EmitsOf(n)) = 1 /\ EmitsOf(n)[1].name = "auth-callback"
    ELSE EmittedOnly(n, "navigate", url.path)

\* ------------------------------------------------------------------------
\* C1
\* ------------------------------------------------------------------------
\* C1 as stated: every payload that is itself a well-formed URL produces the
\* intent of exactly one of the three path branches, never a no-op.
C1_EveryUrlRouted ==
    \A n \in Runs :
        IsUrlPayload(n) => BranchIntent(n, ParseUrl(handled[n].payload))

\* C1 (amended): every payload that is itself a well-formed URL, handled
\* while the main window exists, produces the intent of exactly one of the
\* three path branches, never a no-op.
C1_EveryUrlRoutedWithWindow ==
    \A n \in Runs :
        (IsUrlPayload(n) /\ handled[n].window)
            => BranchIntent(n, ParseUrl(handled[n].payload))

\* a URL payload with an opaque path was routed to the "other path" branch
C1_Witness ==
    \E n \in Runs :
        /\ IsUrlPayload(n) /\ handled[n].window
        /\ ParseUrl(handled[n].payload).path = <<"c", "h", "a", "t">>
        /\ EmittedOnly(n, "navigate", <<"c", "h", "a", "t">>)

\* ------------------------------------------------------------------------
\* C2
\* ------------------------------------------------------------------------
\* C2: a parsed URL with path exactly /chat, main window existing, makes the
\* run emit exactly one event: navigate with "/chat?id=" followed by the value
\* of the first query pair named id when there is one, new-chat with the unit
\* argument when there is none.
C2_ChatBranch ==
    \A n \in Runs :
        (UrlParsed(n) /\ handled[n].window /\ UrlOf(n).path = ChatPath) =>
            LET pairs == QueryPairs(UrlOf(n).query)
                first == FirstIdIndex(pairs)
            IN  IF first # 0
                THEN EmittedOnly(n, "navigate", ChatIdPrefix \o pairs[first].v)
                ELSE EmittedOnly(n, "new-chat", Unit)

\* a /chat URL with two different id values was routed with the first one
C2_Witness ==
    \E n \in Runs :
        /\ UrlParsed(n) /\ handled[n].window /\ UrlOf(n).path = ChatPath
        /\ Len(IdPairs(UrlOf(n))) = 2
        /\ IdPairs(UrlOf(n))[1].v # IdPairs(UrlOf(n))[2].v
        /\ Len(EmitsOf(n)) = 1

\* ------------------------------------------------------------------------
\* C3
\* ------------------------------------------------------------------------
\* C3: a parsed URL with path exactly /auth/callback, main window existing,
\* makes the run emit exactly one event, auth-callback, whose argument is the
\* URL's query string as url.query() gives it, empty when there is no query.
C3_AuthCallbackBranch ==
    \A n \in Runs :
        (UrlParsed(n) /\ handled[n].window /\ UrlOf(n).path = AuthCallbackPath) =>
            EmittedOnly(n, "auth-callback",
                        IF UrlOf(n).hasQuery THEN UrlOf(n).query ELSE << >>)

\* an /auth/callback URL whose query changes under form-decoding was routed
C3_Witness ==
    \E n \in Runs :
        /\ UrlParsed(n) /\ handled[n].window /\ UrlOf(n).path = AuthCallbackPath
        /\ UrlOf(n).hasQuery
        /\ FormDecode(UrlOf(n).query) # UrlOf(n).query
        /\ Len(EmitsOf(n)) = 1

\* ------------------------------------------------------------------------
\* C4
\* ------------------------------------------------------------------------
\* C4: a parsed URL whose path is neither /chat nor /auth/callback, main
\* window existing, makes the run emit exactly one event, navigate, whose
\* argument is the path alone, without the query.
C4_OtherPathBranch ==
    \A n \in Runs :
        (/\ UrlParsed(n) /\ handled[n].window
         /\ UrlOf(n).path # ChatPath /\ UrlOf(n).path # AuthCallbackPath) =>
            /\ EmittedOnly(n, "navigate", UrlOf(n).path)
            /\ \A i \in 1..Len(EmitsOf(n)[1].arg) : EmitsOf(n)[1].arg[i] # "?"

\* the near miss "/chat/" with a query holding an id was routed as a path
C4_Witness ==
    \E n \in Runs :
        /\ UrlParsed(n) /\ handled[n].window
        /\ UrlOf(n).path = ChatPath \o <<"/">>
        /\ IdPairs(UrlOf(n)) # << >>
        /\ Len(EmitsOf(n)) = 1

\* ------------------------------------------------------------------------
\* C5
\* ------------------------------------------------------------------------
\* C5: a payload that is not a URL and is not a JSON array of strings whose
\* first element is a URL makes the run emit nothing, request neither show
\* nor focus, and log exactly one warning and no error.
C5_UnparseableDropped ==
    \A n \in Runs :
        ~UrlParsed(n) =>
            /\ EmitsOf(n) = << >>
            /\ OpsOf(n, "show") = << >>
            /\ OpsOf(n, "set_focus") = << >>
            /\ Len(OpsOf(n, "log::warn")) = 1
            /\ OpsOf(n, "log::error") = << >>

\* the empty JSON array was handled, with the main window existing
C5_Witness ==
    \E n \in Runs :
        /\ handled[n].payload = <<"[", "]">>
        /\ handled[n].window
        /\ Len(OpsOf(n, "log::warn")) = 1

\* ------------------------------------------------------------------------
\* C6
\* ------------------------------------------------------------------------
\* the calls without their run tag
Untagged(calls) ==
    [i \in 1..Len(calls) |->
        [op |-> calls[i].op, name |-> calls[i].name, arg |-> calls[i].arg]]

OnlyEmits(calls) == SelectSeq(calls, LAMBDA e : e.op = "emit")

\* C6: a run emits at most one event; for a JSON array payload it is the
\* intent of the first element when that is a URL (window existing), and
\* nothing when the first element is not a URL, whatever the later elements.
C6_FirstElementOnly ==
    \A n \in Runs :
        /\ Len(EmitsOf(n)) <= 1
        /\ (IsArrayPayload(n) /\ ArrayOf(n) # << >>) =>
              IF ParseUrl(ArrayOf(n)[1]).ok /\ handled[n].window
              THEN Untagged(EmitsOf(n)) = OnlyEmits(RouteByPath(ParseUrl(ArrayOf(n)[1])))
              ELSE EmitsOf(n) = << >>

\* an array whose first element is not a URL and whose second is one was
\* handled with the main window existing
C6_Witness ==
    \E n \in Runs :
        /\ IsArrayPayload(n) /\ Len(ArrayOf(n)) = 2 /\ handled[n].window
        /\ ~ParseUrl(ArrayOf(n)[1]).ok
        /\ ParseUrl(ArrayOf(n)[2]).ok
        /\ Len(OpsOf(n, "log::warn")) = 1

\* ------------------------------------------------------------------------
\* C7
\* ------------------------------------------------------------------------
\* run n requested show, then set_focus, then emitted, once each
ShowFocusThenEmit(n) ==
    /\ Len(OpsOf(n, "show")) = 1
    /\ Len(OpsOf(n, "set_focus")) = 1
    /\ Len(EmitsOf(n)) = 1
    /\ PositionOf(n, "show") < PositionOf(n, "set_focus")
    /\ PositionOf(n, "set_focus") < PositionOf(n, "emit")

\* C7 as stated: whenever a URL was parsed from the payload, show and then
\* set_focus are requested, and both precede the emission of the intent.
C7_AlwaysShowFocus ==
    \A n \in Runs : UrlParsed(n) => ShowFocusThenEmit(n)

\* C7 (amended): whenever a URL was parsed from the payload and the main
\* window exists, show and then set_focus are requested whatever the path
\* branch, both precede the emission of the intent, and the intent is
\* emitted also when show or set_focus failed.
C7_ShowFocusWithWindow ==
    \A n \in Runs : (UrlParsed(n) /\ handled[n].window) => ShowFocusThenEmit(n)

\* show and set_focus both failed (the window is still hidden and unfocused
\* after the run) and the intent was emitted all the same
C7_Witness ==
    \E n \in Runs :
        /\ UrlParsed(n) /\ handled[n].window
        /\ Len(handled) = 1
        /\ ~visible /\ ~focused
        /\ Len(EmitsOf(n)) = 1

\* ------------------------------------------------------------------------
\* C8
\* ------------------------------------------------------------------------
\* C8: a run that parsed a URL while no main window existed emits nothing,
\* requests neither show nor focus and logs one error; its intent is never
\* delivered later: every event in the trace is the intent of the run it
\* belongs to, and only runs that had the window have one.
C8_DroppedWithoutWindow ==
    /\ \A n \in Runs :
          (UrlParsed(n) /\ ~handled[n].window) =>
              /\ EmitsOf(n) = << >>
              /\ OpsOf(n, "show") = << >>
              /\ OpsOf(n, "set_focus") = << >>
              /\ Len(OpsOf(n, "log::error")) = 1
    /\ \A n \in Runs :
          EmitsOf(n) # << >> =>
              /\ UrlParsed(n) /\ handled[n].window
              /\ Untagged(EmitsOf(n)) = OnlyEmits(RouteByPath(UrlOf(n)))
    /\ \A i \in 1..Len(trace) : trace[i].inv \in Runs

\* an intent was dropped for want of a window, the window was created, and a
\* later deep link was delivered
C8_Witness ==
    \E m \in Runs, n \in Runs :
        /\ m < n
        /\ UrlParsed(m) /\ ~handled[m].window /\ Len(OpsOf(m, "log::error")) = 1
        /\ UrlParsed(n) /\ handled[n].window /\ Len(EmitsOf(n)) = 1
        /\ windowExists

\* ------------------------------------------------------------------------
\* C9
\* ------------------------------------------------------------------------
\* the show, focus and emit calls of run n
WindowCallsOf(n) ==
    Untagged(SelectSeq(CallsOf(n), LAMBDA e : e.op \in {"show", "set_focus", "emit"}))

RECURSIVE IntentsInArrivalOrder(_)
IntentsInArrivalOrder(n) ==
    IF n = 0 THEN << >>
    ELSE IntentsInArrivalOrder(n - 1) \o
         (IF ListenerUrl(arrivals[n]).ok /\ handled[n].window
          THEN OnlyEmits(RouteByPath(ListenerUrl(arrivals[n])))
          ELSE << >>)

\* C10: payloads are handled one at a time in arrival order: the runs are the
\* arrivals in order, the pending ones are the rest, the calls of one run are
\* never interleaved with those of another, and the emitted intents are those
\* of the routable arrivals in arrival order.
C10_ArrivalOrder ==
    /\ [n \in Runs |-> handled[n].payload] \o queue = arrivals
    /\ \A i \in 1..Len(trace), j \in 1..Len(trace) :
          i < j => trace[i].inv <= trace[j].inv
    /\ Untagged(OnlyEmits(trace)) = IntentsInArrivalOrder(Len(handled))

\* three different routable deep links arrived and were handled, each
\* delivering its intent
C10_Witness ==
    /\ Len(handled) = 3
    /\ queue = << >>
    /\ handled[1].payload # handled[2].payload
    /\ handled[2].payload # handled[3].payload
    /\ handled[1].payload # handled[3].payload
    /\ Len(OnlyEmits(trace)) = 3

\* ------------------------------------------------------------------------
\* Window, tray and shortcut handlers of lib.rs
\* ------------------------------------------------------------------------
Hide == [op |-> "hide", name |-> "main", arg |-> << >>]

Unminimize == [op |-> "unminimize", name |-> "main", arg |-> << >>]

PreventClose == [op |-> "prevent_close", name |-> "main", arg |-> << >>]

Exit(code) == [op |-> "exit", name |-> "app", arg |-> <<code>>]

SettingsPath == <<"/", "s", "e", "t", "t", "i", "n", "g", "s">>

\* the calls that act on the window and return a Result the handlers discard
WindowOps == {"show", "hide", "set_focus", "unminimize"}

\* the ids of the tray menu items, and one id the menu does not have
MenuIds == {"show", "new_chat", "check_updates", "settings", "quit", "about"}

\* Code::KeyG, and another key
Keys == {"KeyG", "KeyH"}

ShortcutStates == {"Pressed", "Released"}

MouseButtons == {"Left", "Right"}

MouseButtonStates == {"Up", "Down"}

\* on_window_event, CloseRequested arm: hide the window, keep it open
\* variant: the close is not prevented
OnCloseRequestedNoPrevent == <<Hide>>

OnCloseRequested == <<Hide, PreventClose>>

\* variant: "new_chat" and "check_updates" act without looking up the window,
\* and "check_updates" raises the window
OnMenuEventEager(id, exists) ==
    IF id = "quit" THEN <<Exit("0")>>
    ELSE IF id = "show" /\ exists THEN <<Show, SetFocus>>
    ELSE IF id = "new_chat" THEN <<Show, SetFocus, Emit("new-chat", Unit)>>
    ELSE IF id = "check_updates" THEN <<Show, SetFocus, Emit("check-updates", Unit)>>
    ELSE IF id = "settings" /\ exists THEN <<Show, SetFocus, Emit("navigate", SettingsPath)>>
    ELSE << >>

\* on_menu_event: match event.id.as_ref()
OnMenuEvent(id, exists) ==
    IF id = "show" THEN (IF exists THEN <<Show, SetFocus>> ELSE << >>)
    ELSE IF id = "new_chat"
    THEN (IF exists THEN <<Show, SetFocus, Emit("new-chat", Unit)>> ELSE << >>)
    ELSE IF id = "check_updates"
    THEN (IF exists THEN <<Emit("check-updates", Unit)>> ELSE << >>)
    ELSE IF id = "settings"
    THEN (IF exists THEN <<Show, SetFocus, Emit("navigate", SettingsPath)>> ELSE << >>)
    ELSE IF id = "quit" THEN <<Exit("0")>>
    ELSE << >>

\* on_tray_icon_event: a left click, button released
OnTrayIconEvent(button, buttonState, exists) ==
    IF button = "Left" /\ buttonState = "Up" /\ exists THEN <<Show, SetFocus>> ELSE << >>

\* the single-instance callback: another instance was launched
OnSingleInstance(exists) == IF exists THEN <<Show, SetFocus>> ELSE << >>

\* window.is_visible().unwrap_or(false), and the like: a failed query reads false
ReadOr(value, queryOk) == IF queryOk THEN value ELSE FALSE

\* variant: a visible window is hidden whether it has the focus or not
HandleGlobalShortcutHideVisible(key, exists, isVisible, isFocused, isMinimized) ==
    IF key # "KeyG" \/ ~exists THEN << >>
    ELSE IF isMinimized THEN <<Unminimize, Show, SetFocus>>
    ELSE IF isVisible THEN <<Hide>>
    ELSE <<Show, SetFocus>>

\* variant: visibility and focus are tested before minimization
HandleGlobalShortcutVisibleFirst(key, exists, isVisible, isFocused, isMinimized) ==
    IF key # "KeyG" \/ ~exists THEN << >>
    ELSE IF isVisible /\ isFocused THEN <<Hide>>
    ELSE IF isMinimized THEN <<Unminimize, Show, SetFocus>>
    ELSE IF isVisible THEN <<SetFocus>>
    ELSE <<Show, SetFocus>>

\* handle_global_shortcut, on the values read from the window
HandleGlobalShortcut(key, exists, isVisible, isFocused, isMinimized) ==
    IF key = "KeyG"
    THEN (IF exists
          THEN (IF isMinimized THEN <<Unminimize, Show, SetFocus>>
                ELSE IF isVisible /\ isFocused THEN <<Hide>>
                ELSE IF isVisible THEN <<SetFocus>>
                ELSE <<Show, SetFocus>>)
          ELSE << >>)
    ELSE << >>

\* the with_handler closure of the global shortcut plugin
OnShortcut(key, state, exists, isVisible, isFocused, isMinimized) ==
    IF state = "Pressed"
    THEN HandleGlobalShortcut(key, exists, isVisible, isFocused, isMinimized)
    ELSE << >>

\* ------------------------------------------------------------------------
\* The window under the calls of a handler
\* ------------------------------------------------------------------------
WindowNow ==
    [exists |-> windowExists, visible |-> visible, focused |-> focused,
     minimized |-> minimized]

\* one call on window w; a call that fails changes nothing
ApplyCall(w, call, ok) ==
    IF ~ok THEN w
    ELSE IF call.op = "show" THEN [w EXCEPT !.visible = TRUE]
    ELSE IF call.op = "hide" THEN [w EXCEPT !.visible = FALSE, !.focused = FALSE]
    ELSE IF call.op = "set_focus" THEN [w EXCEPT !.focused = TRUE]
    ELSE IF call.op = "unminimize" THEN [w EXCEPT !.minimized = FALSE]
    ELSE w

\* the calls in order, res[i] telling whether call i succeeded
RECURSIVE ApplyCalls(_, _, _)
ApplyCalls(w, calls, res) ==
    IF calls = << >> THEN w
    ELSE ApplyCalls(ApplyCall(w, Head(calls), Head(res)), Tail(calls), Tail(res))

\* every window call of calls succeeded
AllOk(calls, res) ==
    \A i \in 1..Len(calls) : calls[i].op \in WindowOps => res[i]

\* a close request that no handler prevents closes the window, and the
\* application ends with its last window
Closes(ev, calls) == ev = "close" /\ ~Called(calls, "prevent_close")

\* a press of the shortcut that found the window, all queries and calls
\* succeeding, extends the streak of such presses (counted up to 2)
StreakAfter(ev, id, ok) ==
    IF ev = "shortcut" /\ id = "KeyG:Pressed" /\ windowExists /\ ok
    THEN (IF last.streak >= 1 THEN 2 ELSE 1)
    ELSE 0

\* one handler run to completion: its calls take effect, the results of the
\* window calls are discarded
Handle(ev, id, calls, read, queriesOk) ==
    /\ appState = "running"
    /\ \E res \in [1..Len(calls) -> BOOLEAN] :
        /\ visible' = ApplyCalls(WindowNow, calls, res).visible
        /\ focused' = ApplyCalls(WindowNow, calls, res).focused
        /\ minimized' = ApplyCalls(WindowNow, calls, res).minimized
        /\ last' = [ev |-> ev, id |-> id, pre |-> WindowNow, read |-> read,
                    calls |-> calls,
                    ok |-> queriesOk /\ AllOk(calls, res),
                    streak |-> StreakAfter(ev, id, queriesOk /\ AllOk(calls, res))]
    /\ windowExists' = (windowExists /\ ~Closes(ev, calls))
    /\ appState' = IF Called(calls, "exit") \/ Closes(ev, calls) THEN "exited" ELSE appState
    /\ UNCHANGED <<routerVars, cmdVars>>

\* ------------------------------------------------------------------------
\* Window, tray and shortcut events
\* ------------------------------------------------------------------------
\* the user asks to close the main window
CloseRequested ==
    /\ windowExists
    /\ Handle("close", "", OnCloseRequested, NoEvent.read, TRUE)

\* the user picks an item of the tray menu
TrayMenu ==
    /\ appState = "running"
    /\ \E id \in MenuIds :
        Handle("tray-menu", id, OnMenuEvent(id, windowExists), NoEvent.read, TRUE)

\* the user clicks the tray icon
TrayClick ==
    /\ appState = "running"
    /\ \E b \in MouseButtons, bs \in MouseButtonStates :
        Handle("tray-click", b, OnTrayIconEvent(b, bs, windowExists), NoEvent.read, TRUE)

\* a second instance of the application is launched
SecondInstance ==
    /\ appState = "running"
    /\ Handle("single-instance", "", OnSingleInstance(windowExists), NoEvent.read, TRUE)

\* a global shortcut fires; the three state queries may fail
GlobalShortcut ==
    /\ appState = "running"
    /\ \E key \in Keys, st \in ShortcutStates, qv \in BOOLEAN, qf \in BOOLEAN, qm \in BOOLEAN :
        Handle("shortcut", IF key = "KeyG" /\ st = "Pressed" THEN "KeyG:Pressed" ELSE "other",
               OnShortcut(key, st, windowExists, ReadOr(visible, qv),
                          ReadOr(focused, qf), ReadOr(minimized, qm)),
               [visible |-> ReadOr(visible, qv), focused |-> ReadOr(focused, qf),
                minimized |-> ReadOr(minimized, qm)],
               qv /\ qf /\ qm)

\* the user minimizes the main window
UserMinimizes ==
    /\ appState = "running"
    /\ windowExists /\ ~minimized
    /\ minimized' = TRUE
    /\ focused' = FALSE
    /\ last' = [NoEvent EXCEPT !.ev = "minimized"]
    /\ UNCHANGED <<windowExists, visible, appState, routerVars, cmdVars>>

\* the user gives the focus to another application
FocusLost ==
    /\ appState = "running"
    /\ windowExists /\ focused
    /\ focused' = FALSE
    /\ last' = [NoEvent EXCEPT !.ev = "focus-lost"]
    /\ UNCHANGED <<windowExists, visible, minimized, appState, routerVars, cmdVars>>

\* deep links that arrive while the window events are explored
MaxUiLinks == 1

UiPayloads == {UrlBase \o SettingsPath}

ArriveUi ==
    /\ appState = "running"
    /\ ArriveFrom(UiPayloads, MaxUiLinks)

NextUi ==
    \/ CloseRequested
    \/ TrayMenu
    \/ TrayClick
    \/ SecondInstance
    \/ GlobalShortcut
    \/ UserMinimizes
    \/ FocusLost
    \/ WindowCreated
    \/ ArriveUi
    \/ Dispatch

SpecUi == Init /\ [][NextUi]_vars

\* ------------------------------------------------------------------------
\* C11
\* ------------------------------------------------------------------------
\* C11: a close request leaves the window existing and the application
\* running: the close is prevented and the window is hidden (when hide
\* succeeds); no step ever removes the main window; the application is not
\* running only after the tray item "quit"; and the tray item "show", its
\* calls succeeding, leaves the window visible and focused, also when the
\* window was hidden before.
C11_CloseHidesQuitExits ==
    /\ [](/\ last.ev = "close" =>
                /\ windowExists /\ appState = "running"
                /\ Called(last.calls, "prevent_close")
                /\ last.ok => ~visible
          /\ appState # "running" => (last.ev = "tray-menu" /\ last.id = "quit")
          /\ (last.ev = "tray-menu" /\ last.id = "show" /\ last.pre.exists /\ last.ok)
                => (visible /\ focused))
    /\ [][windowExists => windowExists']_vars

\* the window was hidden, and the tray item "show" made it visible and
\* focused, the application still running
C11_Witness ==
    /\ last.ev = "tray-menu" /\ last.id = "show"
    /\ last.pre.exists /\ ~last.pre.visible
    /\ visible /\ focused
    /\ appState = "running"

\* ------------------------------------------------------------------------
\* C12
\* ------------------------------------------------------------------------
\* the window is as it was before the last event
WindowUntouched ==
    /\ visible = last.pre.visible
    /\ focused = last.pre.focused
    /\ minimized = last.pre.minimized
    /\ windowExists = last.pre.exists
    /\ appState = "running"

\* C12: a Pressed event of key G with the main window present makes the calls
\* of exactly one case, by priority on what is_minimized, is_visible and
\* is_focused read: minimized -> unminimize, show, set_focus; else visible and
\* focused -> hide; else visible -> set_focus only, the window staying
\* visible; else -> show, set_focus.  A Released event, another key, or no
\* main window: no call, nothing changes.
C12_ShortcutCases ==
    last.ev = "shortcut" =>
        IF last.id = "KeyG:Pressed" /\ last.pre.exists
        THEN IF last.read.minimized
             THEN last.calls = <<Unminimize, Show, SetFocus>>
             ELSE IF last.read.visible /\ last.read.focused
             THEN last.calls = <<Hide>>
             ELSE IF last.read.visible
             THEN last.calls = <<SetFocus>> /\ visible
             ELSE last.calls = <<Show, SetFocus>>
        ELSE last.calls = << >> /\ WindowUntouched

\* the shortcut was pressed on a window minimized, visible and focused, and
\* the minimized case won
C12_Witness ==
    /\ last.ev = "shortcut" /\ last.id = "KeyG:Pressed"
    /\ last.pre.exists /\ last.pre.minimized /\ last.pre.visible /\ last.pre.focused
    /\ last.read.minimized
    /\ last.calls = <<Unminimize, Show, SetFocus>>

\* ------------------------------------------------------------------------
\* C13
\* ------------------------------------------------------------------------
\* visible, focused and not minimized
Raised(w) == w.visible /\ w.focused /\ ~w.minimized

\* C13: of two successive presses of the shortcut on the main window (queries
\* and window calls succeeding), the first or the second leaves the window
\* visible, focused and not minimized; and a press calls hide only on a
\* window that was visible, focused and not minimized.
C13_ToggleNotStuck ==
    /\ (last.ev = "shortcut" /\ last.streak = 2) => (Raised(last.pre) \/ Raised(WindowNow))
    /\ (last.ev = "shortcut" /\ last.ok /\ Called(last.calls, "hide")) => Raised(last.pre)

\* a second successive press raised the window that the first one had hidden
C13_Witness ==
    /\ last.ev = "shortcut" /\ last.streak = 2
    /\ ~last.pre.visible
    /\ Raised(WindowNow)

\* ------------------------------------------------------------------------
\* C14
\* ------------------------------------------------------------------------
\* C14: the tray menu, by item id.  With the main window: "show" calls show,
\* set_focus; "new_chat" show, set_focus, emit new-chat; "settings" show,
\* set_focus, emit navigate "/settings"; "check_updates" emits check-updates
\* and leaves visibility and focus as they were; another id does nothing.
\* Without the main window the four items do nothing.  "quit" exits with
\* code 0 in both cases.
C14_TrayMenuDispatch ==
    last.ev = "tray-menu" =>
        IF last.id = "quit"
        THEN last.calls = <<Exit("0")>> /\ appState = "exited"
        ELSE IF ~last.pre.exists THEN last.calls = << >> /\ WindowUntouched
        ELSE IF last.id = "show" THEN last.calls = <<Show, SetFocus>>
        ELSE IF last.id = "new_chat"
        THEN last.calls = <<Show, SetFocus, Emit("new-chat", Unit)>>
        ELSE IF last.id = "settings"
        THEN last.calls = <<Show, SetFocus, Emit("navigate", SettingsPath)>>
        ELSE IF last.id = "check_updates"
        THEN last.calls = <<Emit("check-updates", Unit)>> /\ WindowUntouched
        ELSE last.calls = << >> /\ WindowUntouched

\* "check_updates" was picked with the main window hidden, and the window is
\* still hidden
C14_Witness ==
    /\ last.ev = "tray-menu" /\ last.id = "check_updates"
    /\ last.pre.exists /\ ~last.pre.visible
    /\ last.calls = <<Emit("check-updates", Unit)>>
    /\ ~visible

\* ------------------------------------------------------------------------
\* commands.rs: the token store and the updater
\* ------------------------------------------------------------------------
\* tokens the frontend hands to set_auth_token
Tokens == {"A", "B"}

\* commands invoked in one exploration
MaxCommands == 3

\* outcomes of updater.check(): Ok(Some(update)), Ok(None), Err(e)
CheckOutcomes == {"some", "none", "err"}

NoUpdateAvailable == "No update available"

Some(v) == <<"Some", v>>

\* auth.json as the store plugin holds it: set and delete change the loaded
\* values at once, save writes them to the file, get reads the loaded values
StoreSet(m, token) == Some(token)

StoreDelete(m) == None

StoreGet(m) == m

StoreSave(m, d, saveOk) == IF saveOk THEN m ELSE d

StoreNow == [mem |-> mem, disk |-> disk]

\* get_auth_token: open the store, read "auth_token"
GetAuthToken(openOk, m, d) ==
    IF openOk
    THEN [mem |-> m, disk |-> d, result |-> "Ok", value |-> StoreGet(m)]
    ELSE [mem |-> m, disk |-> d, result |-> "Err", value |-> None]

\* variant: a token once stored is not replaced
SetAuthTokenIfAbsent(token, openOk, saveOk, m, d) ==
    IF openOk
    THEN [mem |-> IF m = None THEN StoreSet(m, token) ELSE m,
          disk |-> StoreSave(IF m = None THEN StoreSet(m, token) ELSE m, d, saveOk),
          result |-> IF saveOk THEN "Ok" ELSE "Err", value |-> None]
    ELSE [mem |-> m, disk |-> d, result |-> "Err", value |-> None]

\* set_auth_token: open the store, set "auth_token", save
SetAuthToken(token, openOk, saveOk, m, d) ==
    IF openOk
    THEN [mem |-> StoreSet(m, token),
          disk |-> StoreSave(StoreSet(m, token), d, saveOk),
          result |-> IF saveOk THEN "Ok" ELSE "Err", value |-> None]
    ELSE [mem |-> m, disk |-> d, result |-> "Err", value |-> None]

\* clear_auth_token: open the store, delete "auth_token", save
ClearAuthToken(openOk, saveOk, m, d) ==
    IF openOk
    THEN [mem |-> StoreDelete(m),
          disk |-> StoreSave(StoreDelete(m), d, saveOk),
          result |-> IF saveOk THEN "Ok" ELSE "Err", value |-> None]
    ELSE [mem |-> m, disk |-> d, result |-> "Err", value |-> None]

\* variant: no update is reported as success
InstallUpdateLenient(updaterOk, check, downloadOk, installOk) ==
    IF ~updaterOk THEN [steps |-> << >>, result |-> "Err", value |-> "updater"]
    ELSE IF check = "err" THEN [steps |-> <<"check">>, result |-> "Err", value |-> "check"]
    ELSE IF check = "none" THEN [steps |-> <<"check">>, result |-> "Ok", value |-> ""]
    ELSE IF ~downloadOk
    THEN [steps |-> <<"check", "download">>, result |-> "Err", value |-> "download"]
    ELSE IF ~installOk
    THEN [steps |-> <<"check", "download", "install">>, result |-> "Err", value |-> "install"]
    ELSE [steps |-> <<"check", "download", "install", "restart">>,
          result |-> "Restart", value |-> ""]

\* install_update: the steps attempted and how the command ends; value is the
\* error message ("No update available", or the failed step standing for
\* e.to_string())
InstallUpdate(updaterOk, check, downloadOk, installOk) ==
    IF ~updaterOk THEN [steps |-> << >>, result |-> "Err", value |-> "updater"]
    ELSE IF check = "err" THEN [steps |-> <<"check">>, result |-> "Err", value |-> "check"]
    ELSE IF check = "none"
    THEN [steps |-> <<"check">>, result |-> "Err", value |-> NoUpdateAvailable]
    ELSE IF ~downloadOk
    THEN [steps |-> <<"check", "download">>, result |-> "Err", value |-> "download"]
    ELSE IF ~installOk
    THEN [steps |-> <<"check", "download", "install">>, result |-> "Err", value |-> "install"]
    ELSE [steps |-> <<"check", "download", "install", "restart">>,
          result |-> "Restart", value |-> ""]

\* one entry of the command log: the command, its argument, how it ended, the
\* value or message it returned, the updater steps it attempted, and the
\* store before and after it
Logged(cmd, arg, run, steps, after) ==
    [cmd |-> cmd, arg |-> arg, result |-> run.result, value |-> run.value,
     steps |-> steps, before |-> StoreNow, after |-> after]

NoArg == [token |-> "", updaterOk |-> TRUE, check |-> "",
          downloadOk |-> TRUE, installOk |-> TRUE]

\* what one install_update met: the outcome of each step it attempted
UpdateArg(updaterOk, check, downloadOk, installOk) ==
    [token |-> "",
     updaterOk |-> updaterOk,
     check |-> IF updaterOk THEN check ELSE "",
     downloadOk |-> (updaterOk /\ check = "some") => downloadOk,
     installOk |-> (updaterOk /\ check = "some" /\ downloadOk) => installOk]

CallGetAuthToken ==
    /\ appState = "running"
    /\ Len(cmdLog) < MaxCommands
    /\ \E openOk \in BOOLEAN :
        /\ mem' = GetAuthToken(openOk, mem, disk).mem
        /\ disk' = GetAuthToken(openOk, mem, disk).disk
        /\ cmdLog' = Append(cmdLog,
                Logged("get_auth_token", NoArg, GetAuthToken(openOk, mem, disk), << >>,
                       [mem |-> GetAuthToken(openOk, mem, disk).mem,
                        disk |-> GetAuthToken(openOk, mem, disk).disk]))
    /\ UNCHANGED <<routerVars, windowExists, visible, focused, minimized, appState, last>>

CallSetAuthToken ==
    /\ appState = "running"
    /\ Len(cmdLog) < MaxCommands
    /\ \E token \in Tokens, openOk \in BOOLEAN, saveOk \in BOOLEAN :
        /\ mem' = SetAuthToken(token, openOk, saveOk, mem, disk).mem
        /\ disk' = SetAuthToken(token, openOk, saveOk, mem, disk).disk
        /\ cmdLog' = Append(cmdLog,
                Logged("set_auth_token", [NoArg EXCEPT !.token = token],
                       SetAuthToken(token, openOk, saveOk, mem, disk), << >>,
                       [mem |-> SetAuthToken(token, openOk, saveOk, mem, disk).mem,
                        disk |-> SetAuthToken(token, openOk, saveOk, mem, disk).disk]))
    /\ UNCHANGED <<routerVars, windowExists, visible, focused, minimized, appState, last>>

CallClearAuthToken ==
    /\ appState = "running"
    /\ Len(cmdLog) < MaxCommands
    /\ \E openOk \in BOOLEAN, saveOk \in BOOLEAN :
        /\ mem' = ClearAuthToken(openOk, saveOk, mem, disk).mem
        /\ disk' = ClearAuthToken(openOk, saveOk, mem, disk).disk
        /\ cmdLog' = Append(cmdLog,
                Logged("clear_auth_token", NoArg,
                       ClearAuthToken(openOk, saveOk, mem, disk), << >>,
                       [mem |-> ClearAuthToken(openOk, saveOk, mem, disk).mem,
                        disk |-> ClearAuthToken(openOk, saveOk, mem, disk).disk]))
    /\ UNCHANGED <<routerVars, windowExists, visible, focused, minimized, appState, last>>

\* app.restart() ends this run of the application
CallInstallUpdate ==
    /\ appState = "running"
    /\ Len(cmdLog) < MaxCommands
    /\ \E updaterOk \in BOOLEAN, check \in CheckOutcomes,
          downloadOk \in BOOLEAN, installOk \in BOOLEAN :
        /\ cmdLog' = Append(cmdLog,
                Logged("install_update",
                       UpdateArg(updaterOk, check, downloadOk, installOk),
                       InstallUpdate(updaterOk, check, downloadOk, installOk),
                       InstallUpdate(updaterOk, check, downloadOk, installOk).steps,
                       StoreNow))
        /\ appState' = IF InstallUpdate(updaterOk, check, downloadOk, installOk).result = "Restart"
                       THEN "restarted" ELSE appState
    /\ UNCHANGED <<routerVars, windowExists, visible, focused, minimized, last, mem, disk>>

NextCommands ==
    \/ CallGetAuthToken
    \/ CallSetAuthToken
    \/ CallClearAuthToken
    \/ CallInstallUpdate

SpecCommands == Init /\ [][NextCommands]_vars

\* ------------------------------------------------------------------------
\* C15
\* ------------------------------------------------------------------------
UpdateSteps == <<"check", "download", "install", "restart">>

Attempted(e, step) == \E i \in 1..Len(e.steps) : e.steps[i] = step

\* C15: every install_update attempts a prefix of check, download, install,
\* restart, in that order; download only after the check found an update,
\* install only after the download succeeded, restart only after install
\* succeeded; a failed check, download or install is the last step attempted
\* and the command returns an error; no update returns the error
\* "No update available" after the check alone; the command ends in an error
\* or in the restart, never in success.
C15_InstallUpdateOrder ==
    \A i \in 1..Len(cmdLog) :
        cmdLog[i].cmd = "install_update" =>
            /\ cmdLog[i].steps = Take(UpdateSteps, Len(cmdLog[i].steps))
            /\ Attempted(cmdLog[i], "download") => cmdLog[i].arg.check = "some"
            /\ Attempted(cmdLog[i], "install") => cmdLog[i].arg.downloadOk
            /\ Attempted(cmdLog[i], "restart") => cmdLog[i].arg.installOk
            /\ (cmdLog[i].arg.updaterOk /\ cmdLog[i].arg.check = "err")
                  => (cmdLog[i].steps = <<"check">> /\ cmdLog[i].result = "Err")
            /\ (cmdLog[i].arg.updaterOk /\ cmdLog[i].arg.check = "none")
                  => /\ cmdLog[i].steps = <<"check">>
                     /\ cmdLog[i].result = "Err"
                     /\ cmdLog[i].value = NoUpdateAvailable
            /\ (Attempted(cmdLog[i], "download") /\ ~cmdLog[i].arg.downloadOk)
                  => (cmdLog[i].steps = <<"check", "download">> /\ cmdLog[i].result = "Err")
            /\ (Attempted(cmdLog[i], "install") /\ ~cmdLog[i].arg.installOk)
                  => /\ cmdLog[i].steps = <<"check", "download", "install">>
                     /\ cmdLog[i].result = "Err"
            /\ cmdLog[i].result \in {"Err", "Restart"}
            /\ cmdLog[i].result = "Restart" <=> Attempted(cmdLog[i], "restart")
            /\ cmdLog[i].result = "Restart" => (i = Len(cmdLog) /\ appState = "restarted")

\* one install_update found no update, a later one installed and restarted
C15_Witness ==
    /\ appState = "restarted"
    /\ \E i \in 1..Len(cmdLog) :
        /\ cmdLog[i].cmd = "install_update"
        /\ cmdLog[i].value = NoUpdateAvailable
    /\ cmdLog[Len(cmdLog)].steps = UpdateSteps

\* ------------------------------------------------------------------------
\* C16
\* ------------------------------------------------------------------------
IsMutation(e) == e.cmd \in {"set_auth_token", "clear_auth_token"}

\* every set_auth_token and clear_auth_token among the first n commands
\* returned Ok
MutationsOk(n) == \A i \in 1..n : IsMutation(cmdLog[i]) => cmdLog[i].result = "Ok"

\* the token the first n commands leave: that of the last set_auth_token if
\* no clear_auth_token came after it
RECURSIVE TokenAfter(_)
TokenAfter(n) ==
    IF n = 0 THEN None
    ELSE IF cmdLog[n].cmd = "set_auth_token" THEN Some(cmdLog[n].arg.token)
    ELSE IF cmdLog[n].cmd = "clear_auth_token" THEN None
    ELSE TokenAfter(n - 1)

\* C16: a get_auth_token that returns after set_auth_token and
\* clear_auth_token calls that all succeeded returns the token of the most
\* recent set_auth_token when no clear_auth_token followed it, else none; and
\* no get_auth_token changes the store.
C16_GetReturnsLatest ==
    \A i \in 1..Len(cmdLog) :
        cmdLog[i].cmd = "get_auth_token" =>
            /\ cmdLog[i].after = cmdLog[i].before
            /\ (cmdLog[i].result = "Ok" /\ MutationsOk(i - 1))
                  => cmdLog[i].value = TokenAfter(i - 1)

\* a token was stored, replaced by another, and get_auth_token returned the
\* second
C16_Witness ==
    /\ Len(cmdLog) = 3
    /\ cmdLog[1].cmd = "set_auth_token" /\ cmdLog[1].result = "Ok"
    /\ cmdLog[2].cmd = "set_auth_token" /\ cmdLog[2].result = "Ok"
    /\ cmdLog[2].arg.token # cmdLog[1].arg.token
    /\ cmdLog[3].cmd = "get_auth_token" /\ cmdLog[3].result = "Ok"
    /\ cmdLog[3].value = Some(cmdLog[2].arg.token)

\* ------------------------------------------------------------------------
\* C17
\* ------------------------------------------------------------------------
\* C17: after a set_auth_token or clear_auth_token that returned an error,
\* the next get_auth_token returns the token a get_auth_token would have
\* returned before the failed call.
C17_FailedCallKeepsToken ==
    \A i \in 1..Len(cmdLog) :
        (/\ i > 1
         /\ cmdLog[i].cmd = "get_auth_token" /\ cmdLog[i].result = "Ok"
         /\ IsMutation(cmdLog[i - 1]) /\ cmdLog[i - 1].result = "Err")
            => cmdLog[i].value = StoreGet(cmdLog[i - 1].before.mem)

====
